---- MODULE Spec2Model ----
(***************************************************************************)
(* dnsmng: a DNS profile manager.  Two programs live in the repository:    *)
(*   - the daemon (package main with fsnotify): applies a profile to       *)
(*     /etc/resolv.conf, records the selection in /var/lib/dnsmng/last_dns *)
(*     and then watches /etc/resolv.conf, restoring it on every write;     *)
(*   - the one-shot tool (src/main.go): applies a profile and exits.       *)
(* The model keeps the file system (config file, resolver file,            *)
(* last-selection file) across runs, and follows one process at a time     *)
(* through main, watchResolvConf and the goroutine that drains the         *)
(* watcher's channels.                                                     *)
(***************************************************************************)
EXTENDS Integers, Sequences, FiniteSets, TLC

(***************************************************************************)
(* Bounds of the model.                                                    *)
(***************************************************************************)
MaxRuns      == 2   \* process runs in one behaviour
MaxExtWrites == 2   \* external writes to the resolver file per run
MaxRestores  == 2   \* restoration writes the goroutine performs per run
MaxQueue     == 1   \* events the watcher can hold undelivered
MaxErrors    == 1   \* subscription errors the watcher can hold undelivered

(***************************************************************************)
(* Inputs: profile names, config files, file contents.                     *)
(***************************************************************************)
Names == {"", "local", "cloudflare", "ghost"}

NoName == "<none>"

\* The nil map: no profile at all.
NoConfig == [n \in {} |-> <<>>]

CfgFull ==
  [n \in {"local", "cloudflare"} |->
     IF n = "local" THEN <<"127.0.0.1">> ELSE <<"1.1.1.1", "1.0.0.1">>]

CfgNoLocal == [n \in {"cloudflare"} |-> <<"1.1.1.1", "1.0.0.1">>]

CfgEmptyKey ==
  [n \in {"", "local", "cloudflare"} |->
     IF n = "" THEN <<"9.9.9.9">>
     ELSE IF n = "local" THEN <<"127.0.0.1">> ELSE <<"1.1.1.1", "1.0.0.1">>]

\* A profile with no address and a profile that repeats an address.
CfgRepeat ==
  [n \in {"local", "cloudflare"} |->
     IF n = "local" THEN <<>> ELSE <<"1.1.1.1", "1.1.1.1">>]

Configs == {CfgFull, CfgNoLocal, CfgEmptyKey, CfgRepeat}

\* The config file: parseable into a profile map, or not (missing, malformed).
ConfigFiles ==
  {[ok |-> TRUE, dns |-> c] : c \in Configs} \cup {[ok |-> FALSE, dns |-> NoConfig]}

ExternalContents == {"", "nameserver 8.8.8.8\nnameserver 8.8.4.4\n"}

LastFiles ==
  {[st |-> "absent", data |-> ""], [st |-> "unreadable", data |-> ""]}
    \cup {[st |-> "ok", data |-> n] : n \in Names}

Programs == {"dnsmng", "simple"}

VARIABLES
  configFile,   \* the config file on disk: [ok, dns]
  resolv,       \* content of /etc/resolv.conf
  lastFile,     \* /var/lib/dnsmng/last_dns: [st, data]
  prog,         \* which program the current process runs
  domain,       \* *domain, the value of --set
  pc,           \* position of the main path
  exitCode,     \* exit status of the last ended process, -1 while none ended
  exitAt,       \* position at which the process ended
  config,       \* config.DNS as loaded by readConfig
  dnsIPs,       \* dnsIPs of the startup branch (the list startup applied)
  lastDNS,      \* lastDNS of the implicit branch
  watchIPs,     \* dnsIPs of main's last block = parameter of watchResolvConf
  err,          \* err of watchResolvConf, shared with the goroutine
  addRet,       \* value returned by watcher.Add
  setRet,       \* value returned by the goroutine's setDNS until it is stored in err
  woff,         \* offset of the file the goroutine's setDNS holds open
  attached,     \* the watch on resolvConfPath is in place
  gpc,          \* position of the goroutine
  events,       \* watcher.Events: operations not yet received
  errors,       \* watcher.Errors: errors not yet received
  runs,         \* processes started so far
  extWrites,    \* external writes to the resolver file in this run
  restores,     \* restoration writes (calls of setDNS by the goroutine) in this run
  lastAtStart,  \* lastFile when the current run started, then when its watch was attached
  resolvAtStart,\* resolv when the current run started, then when its watch was attached
  lastWrite,    \* who wrote the resolver file last in this run
  okSet,        \* name persisted by the last successful explicit start, or NoName
  eventsClosed, \* watcher.Events is closed
  errorsClosed, \* watcher.Errors is closed
  streak,       \* successful restoration writes in a row, nothing written in between
  applied       \* what the last of them left in the resolver file ("" when streak = 0)

fsVars    == <<configFile, resolv, lastFile>>
mainVars  == <<prog, domain, pc, exitCode, exitAt, config, dnsIPs, lastDNS, watchIPs>>
watchVars == <<err, addRet, setRet, woff, attached, gpc, events, errors>>
chanVars  == <<eventsClosed, errorsClosed>>
histVars  == <<runs, extWrites, restores, lastAtStart, resolvAtStart, lastWrite, okSet, streak, applied>>
vars      == <<fsVars, mainVars, watchVars, chanVars, histVars>>

(***************************************************************************)
(* Files.                                                                  *)
(***************************************************************************)
\* Lengths at which a write that fails has stopped: before its first byte, or
\* after five bytes.
WriteCuts == {0, 5}

\* The first k bytes of s.
Prefix(s, k) == SubSeq(s, 1, k)

\* The file cur after the bytes w were written at offset off: they replace
\* what was there and leave the rest of the file.
PutAt(cur, off, w) ==
  LET o == IF off < Len(cur) THEN off ELSE Len(cur)
      e == o + Len(w)
  IN  Prefix(cur, o) \o w \o (IF Len(cur) > e THEN SubSeq(cur, e + 1, Len(cur)) ELSE "")

\* Mutation of OpenFile: the file is opened for appending, not truncated.
OpenFile_Append(old) ==
  {[ok |-> TRUE, data |-> old, off |-> Len(old), mods |-> 0],
   [ok |-> FALSE, data |-> old, off |-> 0, mods |-> 0]}

\* os.OpenFile(name, O_WRONLY|O_CREATE|O_TRUNC, perm), the first step of
\* os.WriteFile: the file is emptied, whatever it held, and the offset is 0;
\* or the open fails and the file is as it was.  mods counts the
\* modifications of the file that a watcher of the path is told of.
OpenFile(old) ==
  {[ok |-> TRUE, data |-> "", off |-> 0, mods |-> 1],
   [ok |-> FALSE, data |-> old, off |-> 0, mods |-> 0]}

\* f.Write(new) and f.Close(), the rest of os.WriteFile, on an open file that
\* holds cur: all of new is written and Close succeeds; or all of new is
\* written and Close returns an error; or the write stops with an error after
\* k bytes.  Close changes nothing in the file.
WriteClose(cur, off, new) ==
  {[ok |-> b, data |-> PutAt(cur, off, new), mods |-> IF new = "" THEN 0 ELSE 1]
     : b \in BOOLEAN}
    \cup {[ok |-> FALSE, data |-> PutAt(cur, off, Prefix(new, k)),
           mods |-> IF k = 0 THEN 0 ELSE 1] : k \in {c \in WriteCuts : c < Len(new)}}

\* os.WriteFile(path, new) with no other writer in between: the outcomes of
\* the open followed by those of the write and the close.
WriteFile(old, new) ==
  UNION {IF o.ok
         THEN {[ok |-> w.ok, data |-> w.data, mods |-> o.mods + w.mods]
                 : w \in WriteClose(o.data, o.off, new)}
         ELSE {[ok |-> FALSE, data |-> o.data, mods |-> 0]} : o \in OpenFile(old)}

\* Mutation of ResolvContent: the lines are joined by newlines, with none
\* after the last one.
RECURSIVE ResolvContent_Joined(_)
ResolvContent_Joined(ips) ==
  IF ips = <<>> THEN ""
  ELSE IF Len(ips) = 1 THEN "nameserver " \o Head(ips)
  ELSE ("nameserver " \o Head(ips) \o "\n") \o ResolvContent_Joined(Tail(ips))

\* The content setDNS builds: "nameserver <ip>\n" for each ip, in order.
RECURSIVE ResolvContent(_)
ResolvContent(ips) ==
  IF ips = <<>> THEN ""
  ELSE ("nameserver " \o Head(ips) \o "\n") \o ResolvContent(Tail(ips))

\* setDNS(dnsIPs) on a resolver file holding old: the possible outcomes.
setDNS(ips, old) == WriteFile(old, ResolvContent(ips))

\* Mutation of readLastDNS: the error test is inverted, so that a file that
\* was read yields the empty name.
readLastDNS_Inverted(f) ==
  IF f.st = "ok" THEN [name |-> "", err |-> FALSE]
  ELSE [name |-> "", err |-> TRUE]

\* readLastDNS: (string(data), nil) or ("", err).
readLastDNS(f) ==
  IF f.st = "ok" THEN [name |-> f.data, err |-> FALSE]
  ELSE [name |-> "", err |-> TRUE]

\* The last-selection file after os.WriteFile has opened it: a file that
\* existed keeps its permissions, so one the process could not read stays so;
\* a missing file is created with the mode given (0644).
Saved(f, data) ==
  [st |-> IF f.st = "unreadable" THEN "unreadable" ELSE "ok", data |-> data]

\* Mutation of saveLastDNS: the name is written with a line terminator.
saveLastDNS_Newline(dnsName, f) ==
  {[ok |-> FALSE, file |-> f]}
    \cup {[ok |-> o.ok, file |-> IF o.mods = 0 THEN f ELSE Saved(f, o.data)]
            : o \in WriteFile(f.data, dnsName \o "\n")}

\* saveLastDNS(dnsName): MkdirAll may fail (file untouched), then
\* os.WriteFile, whose failed open (no modification) leaves the file untouched.
saveLastDNS(dnsName, f) ==
  {[ok |-> FALSE, file |-> f]}
    \cup {[ok |-> o.ok, file |-> IF o.mods = 0 THEN f ELSE Saved(f, o.data)]
            : o \in WriteFile(f.data, dnsName)}

\* config.DNS[name]: (value, exists); a missing key yields the nil slice.
Lookup(cfg, name) ==
  IF name \in DOMAIN cfg THEN [ips |-> cfg[name], exists |-> TRUE]
  ELSE [ips |-> <<>>, exists |-> FALSE]

\* readConfig(path): the parsed map, or an error.
readConfig(file) ==
  IF file.ok THEN [cfg |-> file.dns, err |-> FALSE]
  ELSE [cfg |-> NoConfig, err |-> TRUE]

\* flag.String("set", default, ...)
FlagDefault(p) == IF p = "dnsmng" THEN "" ELSE "local"

\* The watcher queues one event per operation on the watched path, or merges
\* it into the last queued event when that one is the same and still unread.
Deliver(q, op) ==
  {Append(q, op)} \cup (IF q # <<>> /\ q[Len(q)] = op THEN {q} ELSE {})

\* The queues that n operations op in a row can leave.
RECURSIVE DeliverAll(_, _, _)
DeliverAll(q, op, n) ==
  IF n = 0 THEN {q}
  ELSE UNION {Deliver(r, op) : r \in DeliverAll(q, op, n - 1)}

(***************************************************************************)
(* Initial state: no process yet.                                          *)
(***************************************************************************)
Init ==
  /\ configFile \in ConfigFiles
  /\ resolv \in ExternalContents
  /\ lastFile \in LastFiles
  /\ prog = "dnsmng"
  /\ domain = ""
  /\ pc = "idle"
  /\ exitCode = -1
  /\ exitAt = "none"
  /\ config = NoConfig
  /\ dnsIPs = <<>>
  /\ lastDNS = ""
  /\ watchIPs = <<>>
  /\ err = FALSE
  /\ addRet = FALSE
  /\ setRet = FALSE
  /\ woff = 0
  /\ attached = FALSE
  /\ gpc = "none"
  /\ events = <<>>
  /\ errors = 0
  /\ runs = 0
  /\ extWrites = 0
  /\ restores = 0
  /\ lastAtStart = lastFile
  /\ resolvAtStart = resolv
  /\ lastWrite = "none"
  /\ okSet = NoName
  /\ eventsClosed = FALSE
  /\ errorsClosed = FALSE
  /\ streak = 0
  /\ applied = ""

\* The process ends at position `at` with status `code` (log.Fatal, os.Exit,
\* return from main, or a kill): its goroutine and its watcher go with it.
Exit(code, at) ==
  /\ pc' = "exited"
  /\ exitCode' = code
  /\ exitAt' = at
  /\ attached' = FALSE
  /\ gpc' = "none"
  /\ events' = <<>>
  /\ errors' = 0
  /\ eventsClosed' = FALSE
  /\ errorsClosed' = FALSE

Goto(next) ==
  /\ pc' = next
  /\ UNCHANGED <<exitCode, exitAt>>

\* A process is started: flag.Parse (both mains, lines 112-114 / 44-46).
Start(p, args) ==
  /\ pc \in {"idle", "exited"}
  /\ runs < MaxRuns
  /\ runs' = runs + 1
  /\ prog' = p
  /\ domain' = IF args = <<>> THEN FlagDefault(p) ELSE args[1]
  /\ pc' = "readConfig"
  /\ exitCode' = -1
  /\ exitAt' = "none"
  /\ config' = NoConfig
  /\ dnsIPs' = <<>>
  /\ lastDNS' = ""
  /\ watchIPs' = <<>>
  /\ err' = FALSE
  /\ addRet' = FALSE
  /\ setRet' = FALSE
  /\ woff' = 0
  /\ attached' = FALSE
  /\ gpc' = "none"
  /\ events' = <<>>
  /\ errors' = 0
  /\ extWrites' = 0
  /\ restores' = 0
  /\ lastAtStart' = lastFile
  /\ resolvAtStart' = resolv
  /\ lastWrite' = "none"
  /\ eventsClosed' = FALSE
  /\ errorsClosed' = FALSE
  /\ streak' = 0
  /\ applied' = ""
  /\ UNCHANGED <<fsVars, okSet>>

\* main: config, err := readConfig(*configPath); exit 1 on error.
ReadConfig ==
  /\ pc = "readConfig"
  /\ LET r == readConfig(configFile) IN
       IF r.err
       THEN /\ Exit(1, "readConfig")
            /\ UNCHANGED config
       ELSE /\ config' = r.cfg
            /\ Goto(IF prog = "simple" THEN "simpleLookup"
                    ELSE IF domain # "" THEN "explicitLookup" ELSE "implicitRead")
            /\ UNCHANGED <<attached, gpc, events, errors, chanVars>>
  /\ UNCHANGED <<fsVars, prog, domain, dnsIPs, lastDNS, watchIPs, err, addRet, setRet, woff, histVars>>

(***************************************************************************)
(* The daemon's main: explicit selection (--set given).                    *)
(***************************************************************************)
\* Mutation of ExplicitLookup: the exists test is dropped.
ExplicitLookup_NoCheck ==
  /\ pc = "explicitLookup"
  /\ dnsIPs' = Lookup(config, domain).ips
  /\ Goto("explicitSet")
  /\ UNCHANGED <<attached, gpc, events, errors, chanVars>>
  /\ UNCHANGED <<fsVars, prog, domain, config, lastDNS, watchIPs, err, addRet, setRet, woff, histVars>>

\* dnsIPs, exists := config.DNS[*domain]; log.Fatalf if absent.
ExplicitLookup ==
  /\ pc = "explicitLookup"
  /\ LET l == Lookup(config, domain) IN
       IF l.exists
       THEN /\ dnsIPs' = l.ips
            /\ Goto("explicitSet")
            /\ UNCHANGED <<attached, gpc, events, errors, chanVars>>
       ELSE /\ Exit(1, "explicitLookup")
            /\ UNCHANGED dnsIPs
  /\ UNCHANGED <<fsVars, prog, domain, config, lastDNS, watchIPs, err, addRet, setRet, woff, histVars>>

\* Mutation of ExplicitSetDNS: the error of setDNS is not tested.
ExplicitSetDNS_IgnoreErr ==
  /\ pc = "explicitSet"
  /\ \E o \in setDNS(dnsIPs, resolv) :
       /\ resolv' = o.data
       /\ lastWrite' = IF o.ok THEN "startup" ELSE "startupFail"
  /\ Goto("explicitSave")
  /\ UNCHANGED <<attached, gpc, events, errors, chanVars>>
  /\ UNCHANGED <<configFile, lastFile, prog, domain, config, dnsIPs, lastDNS, watchIPs,
                 err, addRet, setRet, woff, runs, extWrites, restores, lastAtStart, resolvAtStart, okSet, streak, applied>>

\* err = setDNS(dnsIPs); log.Fatalf on error.
ExplicitSetDNS ==
  /\ pc = "explicitSet"
  /\ \E o \in setDNS(dnsIPs, resolv) :
       /\ resolv' = o.data
       /\ lastWrite' = IF o.ok THEN "startup" ELSE "startupFail"
       /\ IF o.ok
          THEN /\ Goto("explicitSave")
               /\ UNCHANGED <<attached, gpc, events, errors, chanVars>>
          ELSE Exit(1, "explicitSet")
  /\ UNCHANGED <<configFile, lastFile, prog, domain, config, dnsIPs, lastDNS, watchIPs,
                 err, addRet, setRet, woff, runs, extWrites, restores, lastAtStart, resolvAtStart, okSet, streak, applied>>

\* err = saveLastDNS(*domain); log.Fatalf on error; log.Printf("DNS set to ...").
ExplicitSave ==
  /\ pc = "explicitSave"
  /\ \E o \in saveLastDNS(domain, lastFile) :
       /\ lastFile' = o.file
       /\ IF o.ok
          THEN /\ Goto("resolve")
               /\ okSet' = domain
               /\ UNCHANGED <<attached, gpc, events, errors, chanVars>>
          ELSE /\ Exit(1, "explicitSave")
               /\ okSet' = NoName
  /\ UNCHANGED <<configFile, resolv, prog, domain, config, dnsIPs, lastDNS, watchIPs,
                 err, addRet, setRet, woff, runs, extWrites, restores, lastAtStart, resolvAtStart, lastWrite, streak, applied>>

(***************************************************************************)
(* The daemon's main: no explicit selection.                               *)
(***************************************************************************)
\* Mutation of EffectiveName: the default is taken on a read error only.
EffectiveName_ErrOnly(r) == IF r.err THEN "local" ELSE r.name

\* lastDNS, err := readLastDNS(); if err != nil || lastDNS == "" { lastDNS = "local" }
EffectiveName(r) == IF r.err \/ r.name = "" THEN "local" ELSE r.name

\* Mutation of ImplicitRead: an unknown recorded name falls back to "local".
ImplicitRead_FallbackLocal ==
  /\ pc = "implicitRead"
  /\ LET name == EffectiveName(readLastDNS(lastFile))
         used == IF Lookup(config, name).exists THEN name ELSE "local"
         l == Lookup(config, used)
     IN  /\ lastDNS' = used
         /\ IF l.exists
            THEN /\ dnsIPs' = l.ips
                 /\ Goto("implicitSet")
                 /\ UNCHANGED <<attached, gpc, events, errors, chanVars>>
            ELSE /\ Exit(1, "implicitRead")
                 /\ UNCHANGED dnsIPs
  /\ UNCHANGED <<fsVars, prog, domain, config, watchIPs, err, addRet, setRet, woff, histVars>>

\* The read, the default, and the lookup config.DNS[lastDNS]; log.Fatalf if absent.
ImplicitRead ==
  /\ pc = "implicitRead"
  /\ LET name == EffectiveName(readLastDNS(lastFile))
         l == Lookup(config, name)
     IN  /\ lastDNS' = name
         /\ IF l.exists
            THEN /\ dnsIPs' = l.ips
                 /\ Goto("implicitSet")
                 /\ UNCHANGED <<attached, gpc, events, errors, chanVars>>
            ELSE /\ Exit(1, "implicitRead")
                 /\ UNCHANGED dnsIPs
  /\ UNCHANGED <<fsVars, prog, domain, config, watchIPs, err, addRet, setRet, woff, histVars>>

\* Mutation of ImplicitSetDNS: the restored name is persisted again.
ImplicitSetDNS_Persist ==
  /\ pc = "implicitSet"
  /\ \E o \in setDNS(dnsIPs, resolv) :
       /\ resolv' = o.data
       /\ lastWrite' = IF o.ok THEN "startup" ELSE "startupFail"
       /\ IF o.ok
          THEN /\ Goto("resolve")
               /\ lastFile' = [st |-> "ok", data |-> lastDNS]
               /\ UNCHANGED <<attached, gpc, events, errors, chanVars>>
          ELSE /\ Exit(1, "implicitSet")
               /\ UNCHANGED lastFile
  /\ UNCHANGED <<configFile, prog, domain, config, dnsIPs, lastDNS, watchIPs,
                 err, addRet, setRet, woff, runs, extWrites, restores, lastAtStart, resolvAtStart, okSet, streak, applied>>

\* err = setDNS(dnsIPs); log.Fatalf on error; log.Printf("Restored last DNS: ...").
ImplicitSetDNS ==
  /\ pc = "implicitSet"
  /\ \E o \in setDNS(dnsIPs, resolv) :
       /\ resolv' = o.data
       /\ lastWrite' = IF o.ok THEN "startup" ELSE "startupFail"
       /\ IF o.ok
          THEN /\ Goto("resolve")
               /\ UNCHANGED <<attached, gpc, events, errors, chanVars>>
          ELSE Exit(1, "implicitSet")
  /\ UNCHANGED <<configFile, lastFile, prog, domain, config, dnsIPs, lastDNS, watchIPs,
                 err, addRet, setRet, woff, runs, extWrites, restores, lastAtStart, resolvAtStart, okSet, streak, applied>>

(***************************************************************************)
(* The daemon's main: the list handed to watchResolvConf.                  *)
(***************************************************************************)
\* dnsIPs, exists := config.DNS[*domain]
\* if !exists { lastDNS, _ := readLastDNS(); dnsIPs = config.DNS[lastDNS] }
WatchTarget(cfg, dom, f) ==
  LET l == Lookup(cfg, dom) IN
    IF l.exists THEN l.ips ELSE Lookup(cfg, readLastDNS(f).name).ips

Resolve ==
  /\ pc = "resolve"
  /\ watchIPs' = WatchTarget(config, domain, lastFile)
  /\ Goto("newWatcher")
  /\ UNCHANGED <<fsVars, prog, domain, config, dnsIPs, lastDNS, watchVars, chanVars, histVars>>

(***************************************************************************)
(* watchResolvConf: the main path.                                         *)
(***************************************************************************)
\* watcher, err := fsnotify.NewWatcher(); log.Fatal on error.
NewWatcher ==
  /\ pc = "newWatcher"
  /\ \E failed \in BOOLEAN :
       /\ err' = failed
       /\ IF failed
          THEN Exit(1, "newWatcher")
          ELSE /\ Goto("spawn")
               /\ UNCHANGED <<attached, gpc, events, errors, chanVars>>
  /\ UNCHANGED <<fsVars, prog, domain, config, dnsIPs, lastDNS, watchIPs, addRet, setRet, woff, histVars>>

\* go func() { for { select { ... } } }()
Spawn ==
  /\ pc = "spawn"
  /\ gpc' = "select"
  /\ Goto("add")
  /\ UNCHANGED <<fsVars, prog, domain, config, dnsIPs, lastDNS, watchIPs,
                 err, addRet, setRet, woff, attached, events, errors, chanVars, histVars>>

\* The call watcher.Add(resolvConfPath): the watch is in place when it returns nil.
WatcherAdd ==
  /\ pc = "add"
  /\ \E failed \in BOOLEAN :
       /\ addRet' = failed
       /\ attached' = ~failed
  /\ lastAtStart' = lastFile
  /\ resolvAtStart' = resolv
  /\ Goto("assignErr")
  /\ UNCHANGED <<fsVars, prog, domain, config, dnsIPs, lastDNS, watchIPs,
                 err, setRet, woff, gpc, events, errors, chanVars,
                 runs, extWrites, restores, lastWrite, okSet, streak, applied>>

\* err = <the value watcher.Add returned>
AssignErr ==
  /\ pc = "assignErr"
  /\ err' = addRet
  /\ Goto("checkErr")
  /\ UNCHANGED <<fsVars, prog, domain, config, dnsIPs, lastDNS, watchIPs,
                 addRet, setRet, woff, attached, gpc, events, errors, chanVars, histVars>>

\* Mutation of CheckErr: the error is not fatal, main goes on to <-done.
CheckErr_NoFatal ==
  /\ pc = "checkErr"
  /\ Goto("blocked")
  /\ UNCHANGED <<attached, gpc, events, errors, chanVars>>
  /\ UNCHANGED <<fsVars, prog, domain, config, dnsIPs, lastDNS, watchIPs, err, addRet, setRet, woff, histVars>>

\* if err != nil { log.Fatal(err) }; <-done
CheckErr ==
  /\ pc = "checkErr"
  /\ IF err
     THEN Exit(1, "checkErr")
     ELSE /\ Goto("blocked")
          /\ UNCHANGED <<attached, gpc, events, errors, chanVars>>
  /\ UNCHANGED <<fsVars, prog, domain, config, dnsIPs, lastDNS, watchIPs, err, addRet, setRet, woff, histVars>>

(***************************************************************************)
(* watchResolvConf: the goroutine.                                         *)
(***************************************************************************)
\* Mutation of RecvEvent: the next event is received while the restoration
\* write of the previous one is still under way.
RecvEvent_Concurrent ==
  /\ gpc \in {"select", "restore", "write", "storeErr"}
  /\ IF eventsClosed
     THEN /\ gpc' = "returned"
          /\ UNCHANGED events
     ELSE /\ events # <<>>
          /\ Head(events) = "Write" => restores < MaxRestores
          /\ events' = Tail(events)
          /\ gpc' = IF Head(events) = "Write" THEN "restore" ELSE gpc
  /\ UNCHANGED <<fsVars, mainVars, err, addRet, setRet, woff, attached, errors, chanVars, histVars>>

\* case event, ok := <-watcher.Events: return if !ok, else the Write test of
\* event.Op.
RecvEvent ==
  /\ gpc = "select"
  /\ IF eventsClosed
     THEN /\ gpc' = "returned"
          /\ UNCHANGED events
     ELSE /\ events # <<>>
          /\ Head(events) = "Write" => restores < MaxRestores
          /\ events' = Tail(events)
          /\ gpc' = IF Head(events) = "Write" THEN "restore" ELSE "select"
  /\ UNCHANGED <<fsVars, mainVars, err, addRet, setRet, woff, attached, errors, chanVars, histVars>>

\* The call setDNS(dnsIPs) of line 89, as far as the open of os.WriteFile: the
\* file is emptied, which is itself a write to the watched file; a failed open
\* is the result of setDNS.
RestoreOpen ==
  /\ gpc = "restore"
  /\ \E o \in OpenFile(resolv) :
       /\ resolv' = o.data
       /\ woff' = o.off
       /\ events' \in IF attached /\ ~eventsClosed
                       THEN DeliverAll(events, "Write", o.mods) ELSE {events}
       /\ IF o.ok
          THEN /\ gpc' = "write"
               /\ lastWrite' = "restoreOpen"
               /\ UNCHANGED <<setRet, streak, applied>>
          ELSE /\ gpc' = "storeErr"
               /\ setRet' = TRUE
               /\ lastWrite' = "restoreFail"
               /\ streak' = 0
               /\ applied' = ""
  /\ restores' = restores + 1
  /\ UNCHANGED <<configFile, lastFile, mainVars, err, addRet, attached, errors, chanVars,
                 runs, extWrites, lastAtStart, resolvAtStart, okSet>>

\* The rest of that call: the write at the offset of the open file, over
\* whatever the file holds by then, and the close; setDNS returns.  The write
\* is clean when no other process has written the file since the open.
RestoreWrite ==
  /\ gpc = "write"
  /\ \E o \in WriteClose(resolv, woff, ResolvContent(watchIPs)) :
       LET clean == lastWrite = "restoreOpen" IN
       /\ resolv' = o.data
       /\ setRet' = ~o.ok
       /\ lastWrite' = IF ~o.ok THEN "restoreFail"
                       ELSE IF clean THEN "restoreOk" ELSE "restoreMixed"
       /\ streak' = IF o.ok /\ clean THEN streak + 1 ELSE 0
       /\ applied' = IF o.ok /\ clean THEN o.data ELSE ""
       /\ events' \in IF attached /\ ~eventsClosed
                       THEN DeliverAll(events, "Write", o.mods) ELSE {events}
  /\ woff' = 0
  /\ gpc' = "storeErr"
  /\ UNCHANGED <<configFile, lastFile, mainVars, err, addRet, attached, errors, chanVars,
                 runs, extWrites, restores, lastAtStart, resolvAtStart, okSet>>

\* err = <the value setDNS returned>; if err != nil { log.Printf(...) }
StoreErr ==
  /\ gpc = "storeErr"
  /\ err' = setRet
  /\ setRet' = FALSE
  /\ gpc' = "select"
  /\ UNCHANGED <<fsVars, mainVars, addRet, woff, attached, events, errors, chanVars, histVars>>

\* Mutation of RecvError: the goroutine returns after logging the error.
RecvError_Return ==
  /\ gpc = "select"
  /\ IF errorsClosed
     THEN UNCHANGED errors
     ELSE /\ errors > 0
          /\ errors' = errors - 1
  /\ gpc' = "returned"
  /\ UNCHANGED <<fsVars, mainVars, err, addRet, setRet, woff, attached, events, chanVars, histVars>>

\* case err, ok := <-watcher.Errors: return if !ok, else log.Println("Error:", err)
RecvError ==
  /\ gpc = "select"
  /\ IF errorsClosed
     THEN /\ gpc' = "returned"
          /\ UNCHANGED errors
     ELSE /\ errors > 0
          /\ errors' = errors - 1
          /\ UNCHANGED gpc
  /\ UNCHANGED <<fsVars, mainVars, err, addRet, setRet, woff, attached, events, chanVars, histVars>>

(***************************************************************************)
(* The one-shot tool (src/main.go).                                        *)
(***************************************************************************)
\* dnsIPs, exists := config.DNS[*domain]; os.Exit(1) if absent.
SimpleLookup ==
  /\ pc = "simpleLookup"
  /\ LET l == Lookup(config, domain) IN
       IF l.exists
       THEN /\ dnsIPs' = l.ips
            /\ Goto("simpleSet")
            /\ UNCHANGED <<attached, gpc, events, errors, chanVars>>
       ELSE /\ Exit(1, "simpleLookup")
            /\ UNCHANGED dnsIPs
  /\ UNCHANGED <<fsVars, prog, domain, config, lastDNS, watchIPs, err, addRet, setRet, woff, histVars>>

\* err = setDNS(dnsIPs); os.Exit(1) on error, else main returns.
SimpleSetDNS ==
  /\ pc = "simpleSet"
  /\ \E o \in setDNS(dnsIPs, resolv) :
       /\ resolv' = o.data
       /\ lastWrite' = IF o.ok THEN "startup" ELSE "startupFail"
       /\ IF o.ok THEN Exit(0, "done") ELSE Exit(1, "simpleSet")
  /\ UNCHANGED <<configFile, lastFile, prog, domain, config, dnsIPs, lastDNS, watchIPs,
                 err, addRet, setRet, woff, runs, extWrites, restores, lastAtStart, resolvAtStart, okSet, streak, applied>>

(***************************************************************************)
(* The environment, while the watch is in place.                           *)
(***************************************************************************)
\* The environment lengthens the queue only below MaxQueue (an event that is
\* merged into the last one does not lengthen it); the events of the
\* goroutine's own writes are queued whatever its length, so that no event is
\* ever dropped.
QueueRoom == Len(events) < MaxQueue

\* Another process overwrites the resolver file.
ExternalWrite(c) ==
  /\ attached
  /\ ~eventsClosed
  /\ extWrites < MaxExtWrites
  /\ resolv' = c
  /\ events' \in {q \in Deliver(events, "Write") : q = events \/ QueueRoom}
  /\ extWrites' = extWrites + 1
  /\ lastWrite' = "external"
  /\ streak' = 0
  /\ applied' = ""
  /\ UNCHANGED <<configFile, lastFile, mainVars, err, addRet, setRet, woff, attached, gpc, errors, chanVars,
                 runs, restores, lastAtStart, resolvAtStart, okSet>>

\* Another process changes the file's attributes: an event that is not a Write.
ExternalChmod ==
  /\ attached
  /\ ~eventsClosed
  /\ events' \in {q \in Deliver(events, "Chmod") : q = events \/ QueueRoom}
  /\ UNCHANGED <<fsVars, mainVars, err, addRet, setRet, woff, attached, gpc, errors, chanVars, histVars>>

\* The watcher reports an error on watcher.Errors.
WatcherError ==
  /\ attached
  /\ ~errorsClosed
  /\ errors < MaxErrors
  /\ errors' = errors + 1
  /\ UNCHANGED <<fsVars, mainVars, err, addRet, setRet, woff, attached, gpc, events, chanVars, histVars>>

\* The watcher shuts down and closes watcher.Events; what it had queued is
\* never delivered.
CloseEvents ==
  /\ attached
  /\ ~eventsClosed
  /\ eventsClosed' = TRUE
  /\ events' = <<>>
  /\ UNCHANGED <<fsVars, mainVars, err, addRet, setRet, woff, attached, gpc, errors, errorsClosed, histVars>>

\* The watcher shuts down and closes watcher.Errors.
CloseErrors ==
  /\ attached
  /\ ~errorsClosed
  /\ errorsClosed' = TRUE
  /\ errors' = 0
  /\ UNCHANGED <<fsVars, mainVars, err, addRet, setRet, woff, attached, gpc, events, eventsClosed, histVars>>

\* The process is killed while main is blocked on <-done.
Kill ==
  /\ pc = "blocked"
  /\ Exit(137, "killed")
  /\ UNCHANGED <<fsVars, prog, domain, config, dnsIPs, lastDNS, watchIPs, err, addRet, setRet, woff, histVars>>

Next ==
  \/ \E p \in Programs, args \in {<<>>} \cup {<<n>> : n \in Names} : Start(p, args)
  \/ ReadConfig
  \/ ExplicitLookup
  \/ ExplicitSetDNS
  \/ ExplicitSave
  \/ ImplicitRead
  \/ ImplicitSetDNS
  \/ Resolve
  \/ NewWatcher
  \/ Spawn
  \/ WatcherAdd
  \/ AssignErr
  \/ CheckErr
  \/ RecvEvent
  \/ RestoreOpen
  \/ RestoreWrite
  \/ StoreErr
  \/ RecvError
  \/ SimpleLookup
  \/ SimpleSetDNS
  \/ \E c \in ExternalContents : ExternalWrite(c)
  \/ ExternalChmod
  \/ WatcherError
  \/ CloseEvents
  \/ CloseErrors
  \/ Kill

Spec == Init /\ [][Next]_vars

(***************************************************************************)
(* Vocabulary of the properties.                                           *)
(***************************************************************************)
\* The resolver file the specification asks for: for each address, in order,
\* the line "nameserver <ip>" and a newline.
RECURSIVE NameserverLines(_)
NameserverLines(L) ==
  IF Len(L) = 0 THEN ""
  ELSE NameserverLines(SubSeq(L, 1, Len(L) - 1)) \o "nameserver " \o L[Len(L)] \o "\n"

Daemon == prog = "dnsmng" /\ runs > 0

\* The profile startup applied: the explicit selection, else the record, else "local".
ActiveName == IF domain # "" THEN domain ELSE lastDNS

\* Positions of main from the call of watchResolvConf on.
WatchPcs == {"newWatcher", "spawn", "add", "assignErr", "checkErr", "blocked"}

\* The goroutine waits and has nothing left to receive.
Quiescent == gpc = "select" /\ events = <<>>

\* C1: in the watch phase, once the goroutine has handled a write event with a
\* restoration write that succeeded, and until the next external write, the
\* resolver file holds the serialization of the profile that startup applied.
C1_RestoredToActiveProfile ==
  (Daemon /\ lastWrite = "restoreOk")
    => resolv = NameserverLines(config[ActiveName])

\* C2: whenever main has reached watchResolvConf, the list it passed is the
\* list the startup step wrote to the resolver file.
C2_WatchListIsAppliedList ==
  (Daemon /\ pc \in WatchPcs) => watchIPs = dnsIPs

\* C3: the goroutine never performs more restoration writes than there were
\* external writes, and once every pending event is handled it has performed
\* exactly as many.
C3_OneRestorePerExternalWrite ==
  Daemon => /\ restores <= extWrites
            /\ (Quiescent => restores = extWrites)

\* C4: the run's --set name is non-empty and is not a profile of the config.
UnknownExplicit ==
  /\ runs > 0
  /\ configFile.ok
  /\ domain # ""
  /\ domain \notin DOMAIN configFile.dns

\* C4: a run whose non-empty --set name is unknown gets no further than the
\* lookup, ends with a non-zero status, leaves the resolver file and the
\* last-selection file as they were, and never starts the watch loop.
C4_UnknownExplicitSelection ==
  UnknownExplicit =>
    /\ pc \in {"readConfig", "explicitLookup", "simpleLookup", "exited"}
    /\ (pc = "exited" => exitCode # 0 /\ exitAt \in {"explicitLookup", "simpleLookup"})
    /\ resolv = resolvAtStart
    /\ lastFile = lastAtStart
    /\ gpc = "none" /\ ~attached /\ restores = 0

C4_Witness ==
  /\ UnknownExplicit
  /\ prog = "dnsmng"
  /\ pc = "exited"
  /\ exitAt = "explicitLookup"
  /\ exitCode = 1

\* C5: the current run has no --set and follows a run with --set okSet that
\* completed its startup; the last-selection file was not written since.
RestartAfterSet == Daemon /\ domain = "" /\ okSet # NoName

\* C5: such a run finds the recorded profile, writes its serialization at
\* startup and hands its addresses to the watch loop.
C5_RestoreAcrossRestart ==
  RestartAfterSet =>
    /\ exitAt # "implicitRead"
    /\ (pc = "resolve" => resolv = NameserverLines(configFile.dns[okSet]))
    /\ (pc \in WatchPcs => watchIPs = configFile.dns[okSet])

\* C6: in a run with a known non-empty --set name whose two writes succeeded,
\* from the end of startup to the call of watcher.Add the resolver file holds
\* the serialization of the profile and the last-selection file holds the name.
C6_ExplicitSelectionSuccess ==
  (Daemon /\ domain # "" /\ pc \in {"resolve", "newWatcher", "spawn", "add"}) =>
    /\ domain \in DOMAIN configFile.dns
    /\ resolv = NameserverLines(configFile.dns[domain])
    /\ lastFile.st # "absent" /\ lastFile.data = domain

C6_Witness ==
  /\ Daemon
  /\ domain = "cloudflare"
  /\ pc = "add"
  /\ lastAtStart.st = "absent"
  /\ lastFile.data = "cloudflare"

\* C7: a run with no --set never changes the last-selection file, whatever
\* its outcome and throughout the watch phase.
C7_NoPersistOnImplicitStart ==
  (Daemon /\ domain = "") => lastFile = lastAtStart

C7_Witness ==
  /\ Daemon
  /\ domain = ""
  /\ lastAtStart.st = "ok"
  /\ lastAtStart.data = "cloudflare"
  /\ restores > 0
  /\ lastWrite = "restoreOk"

\* C8: the run has no --set and the record cannot be loaded or is empty.
NoUsableRecord ==
  /\ Daemon
  /\ domain = ""
  /\ configFile.ok
  /\ lastAtStart.st # "ok" \/ lastAtStart.data = ""

\* C8: then the effective name is "local"; the run ends at the record's step
\* only if "local" is not in the config, gets past it only if it is, ends at
\* the startup write only if that write failed, and at the end of startup the
\* resolver file holds the serialization of "local".
C8_DefaultFallback ==
  NoUsableRecord =>
    /\ (pc \notin {"readConfig", "implicitRead"} /\ exitAt # "readConfig") => lastDNS = "local"
    /\ exitAt = "implicitRead" => "local" \notin DOMAIN configFile.dns
    /\ (pc \in {"implicitSet", "resolve"} \cup WatchPcs) => "local" \in DOMAIN configFile.dns
    /\ pc = "resolve" => resolv = NameserverLines(configFile.dns["local"])
    /\ exitAt = "implicitSet" => lastWrite = "startupFail"
    /\ pc = "exited" =>
         exitAt \in {"readConfig", "implicitRead", "implicitSet", "newWatcher", "checkErr", "killed"}

C8_Witness ==
  /\ NoUsableRecord
  /\ lastAtStart.st = "absent"
  /\ pc = "resolve"
  /\ resolv = "nameserver 127.0.0.1\n"

\* C9: the run has no --set and the record names a profile the config lacks.
StaleRecord ==
  /\ Daemon
  /\ domain = ""
  /\ configFile.ok
  /\ lastAtStart.st = "ok"
  /\ lastAtStart.data # ""
  /\ lastAtStart.data \notin DOMAIN configFile.dns

\* C9: such a run gets no further than the lookup of the recorded name, ends
\* there with a non-zero status, does not use "local" in its place, does not
\* write the resolver file and does not start the watch loop.
C9_StaleRecordIsFatal ==
  StaleRecord =>
    /\ pc \in {"readConfig", "implicitRead", "exited"}
    /\ (pc = "exited" => exitCode # 0 /\ exitAt = "implicitRead" /\ lastDNS = lastAtStart.data)
    /\ resolv = resolvAtStart
    /\ gpc = "none" /\ ~attached /\ restores = 0

C9_Witness ==
  /\ StaleRecord
  /\ "local" \in DOMAIN configFile.dns
  /\ pc = "exited"
  /\ exitAt = "implicitRead"
  /\ exitCode = 1

\* C10: the process ends at the check that follows watcher.Add only if
\* watcher.Add failed: once the watch is attached, a failed restoration write
\* of the goroutine does not end the process.
C10_RestoreFailureNotFatal ==
  (Daemon /\ pc = "exited" /\ exitAt = "checkErr") => addRet

\* C11: after a successful apply of a list, at startup or by the goroutine
\* (with no write of another process between its open and its write), the
\* resolver file holds exactly the lines "nameserver <ip>" of the list, in
\* its order, each followed by a newline, and nothing of what it held before.
C11_Serialization ==
  runs > 0 =>
    /\ lastWrite = "startup" => resolv = NameserverLines(dnsIPs)
    /\ lastWrite = "restoreOk" => resolv = NameserverLines(watchIPs)

C11_Witness ==
  /\ Daemon
  /\ lastWrite = "restoreOk"
  /\ extWrites > 0
  /\ watchIPs = <<"1.1.1.1", "1.1.1.1">>
  /\ resolv = "nameserver 1.1.1.1\nnameserver 1.1.1.1\n"

\* C12: once saveLastDNS(name) has succeeded, readLastDNS returns exactly
\* name and no error, whatever the file held before: right after the save,
\* and in the next run that reads the record.
C12_SaveLoadRoundTrip ==
  /\ (Daemon /\ domain # "" /\ pc \in {"resolve"} \cup WatchPcs)
       => readLastDNS(lastFile) = [name |-> domain, err |-> FALSE]
  /\ (RestartAfterSet /\ pc \in {"implicitSet", "resolve"} \cup WatchPcs)
       => lastDNS = okSet

\* C13: when a successful restoration write follows a successful restoration
\* write of the same list with no write of another process between or during
\* them, it leaves the resolver file as the first one left it.
C13_ApplyTwiceIsIdempotent ==
  [][(streak >= 1 /\ streak' = streak + 1) => resolv' = applied]_vars

C13_Witness ==
  /\ Daemon
  /\ streak >= 2
  /\ extWrites = 1
  /\ resolv = "nameserver 1.1.1.1\nnameserver 1.0.0.1\n"

\* C14: in a run with --set, saveLastDNS is reached only after a successful
\* resolver write of the selected profile; a failed resolver write ends the
\* run with a non-zero status and the last-selection file as it was; a failed
\* save ends the run with a non-zero status before watchResolvConf.
C14_ApplyBeforePersist ==
  (Daemon /\ domain # "") =>
    /\ pc \in {"readConfig", "explicitLookup", "explicitSet"} => lastFile = lastAtStart
    /\ pc = "explicitSave" => (lastWrite = "startup" /\ resolv = NameserverLines(config[domain]))
    /\ lastWrite = "startupFail" => (pc = "exited" /\ exitAt = "explicitSet")
    /\ exitAt = "explicitSet" => (exitCode = 1 /\ lastFile = lastAtStart)
    /\ exitAt = "explicitSave" =>
         (exitCode = 1 /\ okSet = NoName /\ gpc = "none" /\ ~attached /\ restores = 0)
    /\ pc \in {"resolve"} \cup WatchPcs => okSet = domain

C14_Witness ==
  /\ Daemon
  /\ domain = "local"
  /\ lastAtStart = [st |-> "ok", data |-> "cloudflare"]
  /\ pc = "exited"
  /\ exitAt = "explicitSet"
  /\ lastWrite = "startupFail"
  /\ lastFile = lastAtStart

\* C15: over every sequence of runs, the name handed to saveLastDNS is a
\* non-empty key of the config, the last-selection file changes in no other
\* step of the program, and a save that succeeds leaves exactly that name in
\* it (a save that fails ends the run and may leave only the first bytes of
\* the name, or none).
C15_RecordValidity ==
  /\ [](pc = "explicitSave" => (domain # "" /\ domain \in DOMAIN configFile.dns))
  /\ [][lastFile' # lastFile =>
          /\ pc = "explicitSave"
          /\ \/ (lastFile'.st # "absent" /\ lastFile'.data = domain)
             \/ /\ pc' = "exited" /\ exitAt' = "explicitSave"
                /\ lastFile'.data \in {Prefix(domain, k) : k \in 0..Len(domain)}]_vars

C15_Witness ==
  /\ Daemon
  /\ runs = 2
  /\ domain = "local"
  /\ pc = "resolve"
  /\ lastAtStart = [st |-> "ok", data |-> "ghost"]
  /\ lastFile = [st |-> "ok", data |-> "local"]

\* The goroutine has been started and the process has not ended.
TaskStarted == Daemon /\ pc \in {"add", "assignErr", "checkErr", "blocked"}

\* C17 as stated: the goroutine has returned only if both channels are closed.
C17_ExitsOnlyWhenBothClosed ==
  (Daemon /\ gpc = "returned") => (eventsClosed /\ errorsClosed)

\* C17, amended: the goroutine returns only from its select and only when a
\* receive finds a channel closed, the event channel or the error channel,
\* either one; until then it exists in every state of the watch phase, and
\* after it has received an error event it is back at its select.
C17_TaskLifetime ==
  /\ []((Daemon /\ gpc = "returned") => (eventsClosed \/ errorsClosed))
  /\ [](TaskStarted => gpc \in {"select", "restore", "write", "storeErr", "returned"})
  /\ [][(gpc # "returned" /\ gpc' = "returned")
          => (gpc = "select" /\ (eventsClosed \/ errorsClosed))]_vars
  /\ [][(errors' = errors - 1 /\ ~errorsClosed' /\ pc' = pc) => gpc' = "select"]_vars

C17_Witness ==
  /\ Daemon
  /\ pc = "blocked"
  /\ gpc = "returned"
  /\ errorsClosed
  /\ ~eventsClosed
  /\ lastWrite = "restoreFail"

\* Positions of main at which a resolver write of main is still to come.
StartupPcs ==
  {"readConfig", "explicitLookup", "explicitSet", "explicitSave", "implicitRead",
   "implicitSet", "resolve", "newWatcher", "spawn"}

\* C16: the goroutine and the watch exist only once main is past its own
\* write, whose success they follow; the resolver file is changed by one
\* writer at a time (main during startup, the goroutine in its restoration
\* step, or another process); and the goroutine receives the next event only
\* from its select, never while a restoration write is under way.
C16_SerializedWrites ==
  /\ [](Daemon =>
          /\ pc \in StartupPcs => (gpc = "none" /\ ~attached /\ events = <<>> /\ restores = 0)
          /\ gpc \in {"select", "restore", "write", "storeErr"} => lastWrite \notin {"none", "startupFail"}
          /\ attached => pc \in {"assignErr", "checkErr", "blocked"})
  /\ [][(Daemon /\ resolv' # resolv) =>
          \/ (pc \in {"explicitSet", "implicitSet"} /\ gpc = "none")
          \/ (gpc = "restore" /\ gpc' \in {"write", "storeErr"} /\ restores' = restores + 1
                /\ pc \notin StartupPcs)
          \/ (gpc = "write" /\ gpc' = "storeErr" /\ pc \notin StartupPcs)
          \/ extWrites' = extWrites + 1]_vars
  /\ [][(events # <<>> /\ events' = Tail(events) /\ ~eventsClosed' /\ pc' = pc)
          => gpc = "select"]_vars

C16_Witness ==
  /\ Daemon
  /\ pc = "blocked"
  /\ gpc = "restore"
  /\ events # <<>>
  /\ lastWrite = "external"

\* C18: when the watcher cannot be created, or cannot be attached to the
\* resolver file, the run ends with a non-zero status (it never reaches
\* <-done), the goroutine has performed no restoration write, and the last
\* and only write of the run to the resolver file is the startup application.
C18_SetupFailure ==
  Daemon =>
    /\ exitAt = "newWatcher" =>
         (exitCode = 1 /\ restores = 0 /\ lastWrite = "startup" /\ resolv = NameserverLines(dnsIPs))
    /\ addRet =>
         /\ pc \in {"assignErr", "checkErr", "exited"}
         /\ pc = "checkErr" => err
         /\ pc = "exited" => (exitAt = "checkErr" /\ exitCode = 1)
         /\ ~attached /\ events = <<>> /\ restores = 0
         /\ lastWrite = "startup" /\ resolv = NameserverLines(dnsIPs)

C18_Witness ==
  /\ Daemon
  /\ domain = "cloudflare"
  /\ addRet
  /\ pc = "exited"
  /\ exitAt = "checkErr"
  /\ exitCode = 1
  /\ resolv = "nameserver 1.1.1.1\nnameserver 1.0.0.1\n"

====
